---- MODULE Spec2Model ----
(***************************************************************************)
(* Model of cmd/synchronizer/main.go: one run of the synchronizer (main),  *)
(* which resolves VAULT_SECRETS into c.Secrets, loads the Vault token,     *)
(* and either checks that the Kubernetes secrets exist (no token) or       *)
(* synchronizes them from Vault and deletes the obsolete ones.             *)
(*                                                                         *)
(* Go strings are modelled as sequences of one-character strings, []byte   *)
(* as sequences of byte values, Go maps as functions.  The range over a Go *)
(* map and the order of a List result are arbitrary: each iteration picks  *)
(* any remaining element.  Every call to Vault or to the Kubernetes API    *)
(* may fail: its outcome is chosen nondeterministically among the results  *)
(* the store can give in its current content.                              *)
(***************************************************************************)
EXTENDS Integers, Sequences, FiniteSets, TLC

VARIABLES
    env,          \* os.Getenv("VAULT_SECRETS")
    tokens,       \* the entry list env was written from (never read by the program)
    Secrets,      \* c.Secrets: kubernetes secret name -> vault secret name
    store,        \* the namespace's secrets: name -> [data, annotations]
    pc,           \* position of main
    todo,         \* keys of c.Secrets the running range loop has not visited
    annotations,  \* the annotations map of synchronize (line 136)
    secretList,   \* items of secretList.Items the cleanup loop has not visited
    calls,        \* calls made to the token file, Vault and Kubernetes, in order
    log,          \* messages logged that decide or report the run's result
    exitCode,     \* -1 while running, then the process's exit status
    run,          \* number of the current run of the process
    start,        \* the namespace's secrets when the current run started
    prev          \* how the previous run of the process ended

vars == <<env, tokens, Secrets, store, pc, todo, annotations, secretList,
          calls, log, exitCode, run, start, prev>>

----------------------------------------------------------------------------
(* Bounds of the model. *)

\* Number of entries in a generated entry list (resolver specification).
MaxTokens == 3

\* Number of runs of the process in the re-run specification.
MaxRuns == 2

----------------------------------------------------------------------------
(* Strings. *)

vaultAnnotation == "vault-secret"

EmptyMap == [x \in {} |-> x]

\* Index of the first occurrence of character c in s, 0 when there is none.
RECURSIVE IndexFrom(_, _, _)
IndexFrom(s, c, i) ==
    IF i > Len(s) THEN 0
    ELSE IF s[i] = c THEN i
    ELSE IndexFrom(s, c, i + 1)

\* strings.Split(s, sep) for a one-character sep: every part, empty parts kept.
RECURSIVE Split(_, _)
Split(s, sep) ==
    LET i == IndexFrom(s, sep, 1)
    IN  IF i = 0 THEN <<s>>
        ELSE <<SubSeq(s, 1, i - 1)>> \o Split(SubSeq(s, i + 1, Len(s)), sep)

\* path.Base: strip the trailing slashes.
RECURSIVE StripTrailingSlashes(_)
StripTrailingSlashes(p) ==
    IF Len(p) > 0 /\ p[Len(p)] = "/"
    THEN StripTrailingSlashes(SubSeq(p, 1, Len(p) - 1))
    ELSE p

\* strings.LastIndex(p, "/") + 1: 0 when p holds no slash.
RECURSIVE LastIndexFrom(_, _, _)
LastIndexFrom(s, c, i) ==
    IF i = 0 THEN 0
    ELSE IF s[i] = c THEN i
    ELSE LastIndexFrom(s, c, i - 1)

\* path.Base(p)
Base(p) ==
    IF p = <<>> THEN <<".">>
    ELSE LET q == StripTrailingSlashes(p)
             i == LastIndexFrom(q, "/", Len(q))
             r == IF i > 0 THEN SubSeq(q, i + 1, Len(q)) ELSE q
         IN  IF r = <<>> THEN <<"/">> ELSE r

\* ItemKey without path.Base.
ItemKey_NoBase(s) == IF Len(s) > 1 THEN s[2] ELSE s[1]

\* Lines 73-78: the key of one non-empty item of VAULT_SECRETS.
ItemKey(s) == IF Len(s) > 1 THEN s[2] ELSE Base(s[1])

\* AddItems without the skip of the empty items (lines 70-72).
RECURSIVE AddItems_NoSkip(_, _, _)
AddItems_NoSkip(items, i, m) ==
    IF i > Len(items) THEN m
    ELSE LET s == Split(items[i], ":")
         IN  AddItems_NoSkip(items, i + 1, (ItemKey(s) :> s[1]) @@ m)

\* Lines 69-79: the loop over the items of VAULT_SECRETS, from item i on.
RECURSIVE AddItems(_, _, _)
AddItems(items, i, m) ==
    IF i > Len(items) THEN m
    ELSE IF Len(items[i]) = 0 THEN AddItems(items, i + 1, m)
    ELSE LET s == Split(items[i], ":")
         IN  AddItems(items, i + 1, (ItemKey(s) :> s[1]) @@ m)

\* Lines 68-79: c.Secrets as built from VAULT_SECRETS.
ParseSecrets(e) == AddItems(Split(e, ","), 1, EmptyMap)

----------------------------------------------------------------------------
(* The entry list VAULT_SECRETS is written from. *)

\* One entry: sourceID, or sourceID:localName when named.
Entry(src, name) == [sourceID |-> src, named |-> TRUE, localName |-> name]
Bare(src) == [sourceID |-> src, named |-> FALSE, localName |-> <<>>]

\* The token of one entry: "sourceID" or "sourceID:localName".
FormatEntry(t) ==
    IF t.named THEN t.sourceID \o <<":">> \o t.localName ELSE t.sourceID

\* The entries' tokens joined by ",".
RECURSIVE JoinEntries(_)
JoinEntries(ts) ==
    IF ts = <<>> THEN <<>>
    ELSE IF Len(ts) = 1 THEN FormatEntry(ts[1])
    ELSE FormatEntry(ts[1]) \o <<",">> \o JoinEntries(Tail(ts))

----------------------------------------------------------------------------
(* Vault. *)

\* []byte(c) for the characters the model's strings are made of.
ByteOf(c) ==
    CASE c = "a" -> 97  [] c = "b" -> 98  [] c = "c" -> 99
      [] c = "x" -> 120 [] c = "y" -> 121 [] c = "/" -> 47
      [] c = ":" -> 58  [] c = "," -> 44  [] c = "." -> 46

\* Line 147: []byte(v.(string))
Bytes(str) == [i \in 1..Len(str) |-> ByteOf(str[i])]

\* The secret Vault holds at path v: a KV version 2 response, whose fields
\* are nested under "data".  The payload of a path does not change.
VaultSecret(v) ==
    [nil |-> FALSE,
     Data |-> ("data" :> ("path" :> [type |-> "string", val |-> v])
                          @@ ("user" :> [type |-> "string", val |-> <<"a">>]))]

\* Line 140: what c.vaultClient.Logical().Read(v) can return: an error, no
\* secret and no error (the path does not exist), a secret without the
\* "data" field, a secret with a field that is no string, or the secret.
VaultResponses(v) ==
    { [res |-> "error", err |-> TRUE,
       secret |-> [nil |-> TRUE, Data |-> EmptyMap]],
      [res |-> "notfound", err |-> FALSE,
       secret |-> [nil |-> TRUE, Data |-> EmptyMap]],
      [res |-> "nodata", err |-> FALSE,
       secret |-> [nil |-> FALSE, Data |-> EmptyMap]],
      [res |-> "nostring", err |-> FALSE,
       secret |-> [nil |-> FALSE,
                   Data |-> ("data" :> ("port" :> [type |-> "number", val |-> <<>>]))]],
      [res |-> "secret", err |-> FALSE, secret |-> VaultSecret(v)] }

\* Lines 146-147: the nil dereference and the type assertions that panic.
ConvertPanics(s) ==
    IF s.nil THEN TRUE
    ELSE IF "data" \notin DOMAIN s.Data THEN TRUE
    ELSE \E f \in DOMAIN s.Data["data"] : s.Data["data"][f].type # "string"

\* Lines 145-148: the secret's fields as bytes.
ConvertData(s) ==
    [f \in DOMAIN s.Data["data"] |-> Bytes(s.Data["data"][f].val)]

----------------------------------------------------------------------------
(* The Kubernetes secrets of the namespace. *)

\* SetAnnotation that keeps the value the map already holds.
SetAnnotation_KeepFirst(a, v) ==
    IF vaultAnnotation \in DOMAIN a THEN a ELSE (vaultAnnotation :> v) @@ a

\* Line 150: annotations[vaultAnnotation] = v
SetAnnotation(a, v) == (vaultAnnotation :> v) @@ a

\* SecretName that takes the name from the Vault path.
SecretName_FromPath(k, v) == Base(v)

\* Line 152: the name of the secret of key k, read from Vault path v.
SecretName(k, v) == k

\* Lines 151-154: the secret built for one entry.
NewSecret(data, a) == [data |-> data, annotations |-> a]

\* SecretMissing that ignores the error of Get.
SecretMissing_Never(get) == FALSE

\* Line 125: checkSecrets takes the secret as missing (err != nil).
SecretMissing(get) == get # "found"

\* TakesCreate on any error of Get (err != nil).
TakesCreate_OnAnyError(get) == get # "found"

\* Line 157: synchronize creates the secret (apierr.IsNotFound(err)).
TakesCreate(get) == get = "notfound"

\* Lines 124, 156: what Secrets(ns).Get(k) can return.
GetOutcomes(st, k) ==
    IF k \in DOMAIN st THEN {"found", "error"} ELSE {"notfound", "error"}

\* Line 159: what Secrets(ns).Create(secret) can return.
CreateOutcomes(st, k) ==
    IF k \in DOMAIN st THEN {"error"} ELSE {"ok", "error"}

\* Line 165: what Secrets(ns).Update(secret) can return.
UpdateOutcomes(st, k) ==
    IF k \in DOMAIN st THEN {"ok", "error"} ELSE {"error"}

\* Line 185: what Secrets(ns).Delete(name) can return.
DeleteOutcomes(st, k) ==
    IF k \in DOMAIN st THEN {"ok", "error"} ELSE {"error"}

\* Put that merges the secret into the object the store has under k.
Put_Merge(st, k, secret) ==
    IF k \in DOMAIN st
    THEN (k :> [data |-> secret.data @@ st[k].data,
                annotations |-> secret.annotations @@ st[k].annotations]) @@ st
    ELSE (k :> secret) @@ st

\* The store once secret is written under name k: the whole object is
\* replaced, nothing of an object it had under k is kept.
Put(st, k, secret) == (k :> secret) @@ st

\* The store once name k is deleted.
Remove(st, k) == [n \in DOMAIN st \ {k} |-> st[n]]

\* Line 177: the secret carries the annotation.
IsManaged(a) == vaultAnnotation \in DOMAIN a

\* IsObsolete with the test of line 181 inverted.
IsObsolete_Desired(s, secrets) ==
    IsManaged(s.annotations) /\ s.name \in DOMAIN secrets

\* IsObsolete without the test of line 177.
IsObsolete_AnySecret(s, secrets) == s.name \notin DOMAIN secrets

\* IsObsolete without the test of line 181.
IsObsolete_AnyManaged(s, secrets) == IsManaged(s.annotations)

\* Lines 177-183: the cleanup loop deletes this item.
IsObsolete(s, secrets) == IsManaged(s.annotations) /\ s.name \notin DOMAIN secrets

\* Line 170: secretList.Items.
Listed(st) == {[name |-> n, annotations |-> st[n].annotations] : n \in DOMAIN st}

----------------------------------------------------------------------------
(* Calls and messages. *)

\* A call: the operation, the name or path it is about, the result, and for
\* Create and Update the secret that was sent.
Call(op, arg, res) == [op |-> op, arg |-> arg, res |-> res, body |-> <<>>]
WriteCall(op, arg, res, secret) == [op |-> op, arg |-> arg, res |-> res, body |-> secret]
Msg(text, arg) == [msg |-> text, arg |-> arg]

\* log.Fatal: the message, then exit status 1.
Fatal(text, arg) ==
    /\ log' = Append(log, Msg(text, arg))
    /\ pc' = "exited"
    /\ exitCode' = 1

\* A run-time panic: exit status 2.
Panic ==
    /\ log' = Append(log, Msg("panic", <<>>))
    /\ pc' = "exited"
    /\ exitCode' = 2

----------------------------------------------------------------------------
(* main, lines 30-34: newFromEnvironment. *)

\* Lines 64-107: the steps of newFromEnvironment other than VAULT_SECRETS
\* that can fail, in the order of the code ("" when all succeed).
ConfigFailures ==
    {"", "missing VAULT_TOKEN_PATH", "could not get namespace",
     "failed to get k8s config", "failed to read environment for vault"}

\* Lines 62-108, with its caller's lines 31-34.
NewFromEnvironment ==
    /\ pc = "newFromEnvironment"
    /\ \E failure \in ConfigFailures :
         LET secrets == ParseSecrets(env)
         IN  IF failure = "missing VAULT_TOKEN_PATH"
             THEN /\ Fatal("failed to get config", failure)
                  /\ UNCHANGED Secrets
             ELSE IF DOMAIN secrets = {}
             THEN /\ Fatal("failed to get config", "no secrets to synchronize")
                  /\ Secrets' = secrets
             ELSE IF failure # ""
             THEN /\ Fatal("failed to get config", failure)
                  /\ Secrets' = secrets
             ELSE /\ Secrets' = secrets
                  /\ pc' = "loadToken"
                  /\ UNCHANGED <<log, exitCode>>
    /\ UNCHANGED <<env, tokens, store, todo, annotations, secretList, calls,
                   run, start, prev>>

----------------------------------------------------------------------------
(* main, lines 36-44: loadToken and the check without a token. *)

\* LoadToken whose error is not checked: synchronize runs without token.
LoadToken_ErrorIgnored ==
    /\ pc = "loadToken"
    /\ \E res \in {"ok", "error"} :
         /\ calls' = Append(calls, Call("ReadFile", <<>>, res))
         /\ pc' = "synchronize"
    /\ todo' = DOMAIN Secrets
    /\ annotations' = EmptyMap
    /\ UNCHANGED <<env, tokens, Secrets, store, secretList, log, exitCode,
                   run, start, prev>>

\* Lines 111-117 with line 37: the token file is read, or cannot be.
LoadToken ==
    /\ pc = "loadToken"
    /\ \E res \in {"ok", "error"} :
         /\ calls' = Append(calls, Call("ReadFile", <<>>, res))
         /\ pc' = IF res = "ok" THEN "synchronize" ELSE "checkSecrets"
    /\ todo' = DOMAIN Secrets
    /\ annotations' = EmptyMap
    /\ UNCHANGED <<env, tokens, Secrets, store, secretList, log, exitCode,
                   run, start, prev>>

\* Lines 122-128 with lines 38-40: one iteration of the loop of checkSecrets.
CheckSecret ==
    /\ pc = "checkSecrets"
    /\ \E k \in todo : \E get \in GetOutcomes(store, k) :
         /\ calls' = Append(calls, Call("Get", k, get))
         /\ IF SecretMissing(get)
            THEN /\ Fatal("secret does not exist", k)
                 /\ UNCHANGED todo
            ELSE /\ todo' = todo \ {k}
                 /\ UNCHANGED <<pc, log, exitCode>>
    /\ UNCHANGED <<env, tokens, Secrets, store, annotations, secretList,
                   run, start, prev>>

\* Line 129 with lines 41-43: every secret was found.
CheckSecretsDone ==
    /\ pc = "checkSecrets"
    /\ todo = {}
    /\ log' = Append(log, Msg("cannot synchronize secrets", <<>>))
    /\ pc' = "exited"
    /\ exitCode' = 0
    /\ UNCHANGED <<env, tokens, Secrets, store, todo, annotations, secretList,
                   calls, run, start, prev>>

----------------------------------------------------------------------------
(* synchronize, lines 137-168: one iteration of the loop over c.Secrets. *)

\* SyncReadError that logs the error and goes on with the next entry.
SyncReadError_Continue(k) ==
    /\ \E r \in VaultResponses(Secrets[k]) :
         /\ r.err
         /\ calls' = Append(calls, Call("Read", Secrets[k], r.res))
    /\ log' = Append(log, Msg("failed to synchronize secrets", k))
    /\ todo' = todo \ {k}
    /\ UNCHANGED <<store, annotations, pc, exitCode>>

\* SyncReadError that reads the path again, once, before it gives up.
SyncReadError_RetryOnce(k) ==
    /\ \E r \in VaultResponses(Secrets[k]) :
         /\ r.err
         /\ calls' = Append(calls, Call("Read", Secrets[k], r.res))
    /\ IF \E i \in 1..Len(calls) : calls[i].op = "Read" /\ calls[i].arg = Secrets[k]
       THEN Fatal("failed to synchronize secrets", k)
       ELSE UNCHANGED <<log, pc, exitCode>>
    /\ UNCHANGED <<store, todo, annotations>>

\* Lines 140-143 with lines 46-48: the read from Vault fails.
SyncReadError(k) ==
    /\ \E r \in VaultResponses(Secrets[k]) :
         /\ r.err
         /\ calls' = Append(calls, Call("Read", Secrets[k], r.res))
    /\ Fatal("failed to synchronize secrets", k)
    /\ UNCHANGED <<store, todo, annotations>>

\* Lines 140-148: the read returns something the conversion panics on.
SyncConvertPanic(k) ==
    /\ \E r \in VaultResponses(Secrets[k]) :
         /\ ~r.err
         /\ ConvertPanics(r.secret)
         /\ calls' = Append(calls, Call("Read", Secrets[k], r.res))
    /\ Panic
    /\ UNCHANGED <<store, todo, annotations>>

\* SyncCreate that logs the error of the create and goes on.
SyncCreate_IgnoreError(k, secret, cs) ==
    \E res \in CreateOutcomes(store, k) :
      /\ calls' = Append(cs, WriteCall("Create", k, res, secret))
      /\ todo' = todo \ {k}
      /\ UNCHANGED <<pc, exitCode>>
      /\ IF res = "ok"
         THEN /\ store' = Put(store, k, secret)
              /\ UNCHANGED log
         ELSE /\ log' = Append(log, Msg("failed to synchronize secrets", k))
              /\ UNCHANGED store

\* Lines 159-162: create, after the calls cs of this iteration; an error is
\* returned to main.
SyncCreate(k, secret, cs) ==
    \E res \in CreateOutcomes(store, SecretName(k, Secrets[k])) :
      /\ calls' = Append(cs, WriteCall("Create", SecretName(k, Secrets[k]), res, secret))
      /\ IF res = "ok"
         THEN /\ store' = Put(store, SecretName(k, Secrets[k]), secret)
              /\ todo' = todo \ {k}
              /\ UNCHANGED <<pc, log, exitCode>>
         ELSE /\ Fatal("failed to synchronize secrets", k)
              /\ UNCHANGED <<store, todo>>

\* SyncUpdate that logs the error of the update and goes on.
SyncUpdate_IgnoreError(k, secret, cs) ==
    \E res \in UpdateOutcomes(store, k) :
      /\ calls' = Append(cs, WriteCall("Update", k, res, secret))
      /\ todo' = todo \ {k}
      /\ UNCHANGED <<pc, exitCode>>
      /\ IF res = "ok"
         THEN /\ store' = Put(store, k, secret)
              /\ UNCHANGED log
         ELSE /\ log' = Append(log, Msg("failed to synchronize secrets", k))
              /\ UNCHANGED store

\* Lines 164-167: update, after the calls cs of this iteration; an error is
\* returned to main.
SyncUpdate(k, secret, cs) ==
    \E res \in UpdateOutcomes(store, SecretName(k, Secrets[k])) :
      /\ calls' = Append(cs, WriteCall("Update", SecretName(k, Secrets[k]), res, secret))
      /\ IF res = "ok"
         THEN /\ store' = Put(store, SecretName(k, Secrets[k]), secret)
              /\ todo' = todo \ {k}
              /\ UNCHANGED <<pc, log, exitCode>>
         ELSE /\ Fatal("failed to synchronize secrets", k)
              /\ UNCHANGED <<store, todo>>

\* Lines 140-167: the secret is read and converted, the annotation set, the
\* secret built, and created or updated as Get tells.
SyncApply(k) ==
    \E r \in VaultResponses(Secrets[k]) :
      /\ ~r.err
      /\ ~ConvertPanics(r.secret)
      /\ LET a == SetAnnotation(annotations, Secrets[k])
             secret == NewSecret(ConvertData(r.secret), a)
         IN  /\ annotations' = a
             /\ \E get \in GetOutcomes(store, SecretName(k, Secrets[k])) :
                  LET cs == calls \o <<Call("Read", Secrets[k], r.res),
                                       Call("Get", SecretName(k, Secrets[k]), get)>>
                  IN  IF TakesCreate(get)
                      THEN SyncCreate(k, secret, cs)
                      ELSE SyncUpdate(k, secret, cs)

SyncEntry ==
    /\ pc = "synchronize"
    /\ \E k \in todo :
         \/ SyncReadError(k)
         \/ SyncConvertPanic(k)
         \/ SyncApply(k)
    /\ UNCHANGED <<env, tokens, Secrets, secretList, run, start, prev>>

----------------------------------------------------------------------------
(* synchronize, lines 169-190: delete the obsolete secrets. *)

\* ListSecrets that returns the error of the list to main.
ListSecrets_Fatal ==
    /\ pc = "synchronize"
    /\ todo = {}
    /\ \E res \in {"ok", "error"} :
         /\ calls' = Append(calls, Call("List", <<>>, res))
         /\ IF res = "ok"
            THEN /\ secretList' = Listed(store)
                 /\ pc' = "cleanup"
                 /\ UNCHANGED <<log, exitCode>>
            ELSE /\ Fatal("failed to synchronize secrets", <<>>)
                 /\ UNCHANGED secretList
    /\ UNCHANGED <<env, tokens, Secrets, store, todo, annotations, run, start, prev>>

\* Lines 170-174: the list, which ends the process with status 0 when it fails.
ListSecrets ==
    /\ pc = "synchronize"
    /\ todo = {}
    /\ \E res \in {"ok", "error"} :
         /\ calls' = Append(calls, Call("List", <<>>, res))
         /\ IF res = "ok"
            THEN /\ secretList' = Listed(store)
                 /\ pc' = "cleanup"
                 /\ UNCHANGED <<log, exitCode>>
            ELSE /\ log' = Append(log, Msg("cleanup of unused vault secrets failed", <<>>))
                 /\ pc' = "exited"
                 /\ exitCode' = 0
                 /\ UNCHANGED secretList
    /\ UNCHANGED <<env, tokens, Secrets, store, todo, annotations, run, start, prev>>

\* Lines 175-183: an item that is not annotated, or is in c.Secrets.
CleanupSkip(s) ==
    /\ ~IsObsolete(s, Secrets)
    /\ UNCHANGED <<store, calls, log, pc, exitCode>>

\* CleanupDelete that returns the error of a delete to main.
CleanupDelete_Fatal(s) ==
    /\ IsObsolete(s, Secrets)
    /\ \E res \in DeleteOutcomes(store, s.name) :
         /\ calls' = Append(calls, Call("Delete", s.name, res))
         /\ IF res = "ok"
            THEN /\ store' = Remove(store, s.name)
                 /\ UNCHANGED <<log, pc, exitCode>>
            ELSE /\ Fatal("failed to synchronize secrets", s.name)
                 /\ UNCHANGED store

\* Lines 184-187: an obsolete item is deleted; a failure is logged.
CleanupDelete(s) ==
    /\ IsObsolete(s, Secrets)
    /\ \E res \in DeleteOutcomes(store, s.name) :
         /\ calls' = Append(calls, Call("Delete", s.name, res))
         /\ IF res = "ok"
            THEN /\ store' = Remove(store, s.name)
                 /\ UNCHANGED log
            ELSE /\ log' = Append(log, Msg("delete obsolete vault secret failed", s.name))
                 /\ UNCHANGED store
    /\ UNCHANGED <<pc, exitCode>>

\* Lines 175-188: one iteration of the loop over secretList.Items.
CleanupItem ==
    /\ pc = "cleanup"
    /\ \E s \in secretList :
         /\ secretList' = secretList \ {s}
         /\ \/ CleanupSkip(s)
            \/ CleanupDelete(s)
    /\ UNCHANGED <<env, tokens, Secrets, todo, annotations, run, start, prev>>

\* Line 189 with lines 49-51: synchronize returns nil.
SyncReturn ==
    /\ pc = "cleanup"
    /\ secretList = {}
    /\ log' = Append(log, Msg("secrets successfully synchronized", <<>>))
    /\ pc' = "exited"
    /\ exitCode' = 0
    /\ UNCHANGED <<env, tokens, Secrets, store, todo, annotations, secretList,
                   calls, run, start, prev>>

----------------------------------------------------------------------------
(* The process is started again (it runs in an init container). *)

\* How a run went: the exit status, whether synchronize applied every
\* entry (it went on to the list, line 170), and whether the list and every
\* delete of the cleanup succeeded.
Outcome ==
    [exitCode |-> exitCode,
     applied |-> \E i \in 1..Len(calls) : calls[i].op = "List",
     cleaned |-> /\ \E i \in 1..Len(calls) : calls[i].op = "List" /\ calls[i].res = "ok"
                 /\ \A i \in 1..Len(calls) : calls[i].op = "Delete" => calls[i].res = "ok"]

Restart ==
    /\ pc = "exited"
    /\ run < MaxRuns
    /\ run' = run + 1
    /\ prev' = Outcome
    /\ start' = store
    /\ pc' = "newFromEnvironment"
    /\ Secrets' = EmptyMap
    /\ todo' = {}
    /\ annotations' = EmptyMap
    /\ secretList' = {}
    /\ calls' = <<>>
    /\ log' = <<>>
    /\ exitCode' = -1
    /\ UNCHANGED <<env, tokens, store>>

----------------------------------------------------------------------------
(* Initial states. *)

\* Names of the secrets the namespace may hold before the first run.
StoreNames == {<<"a">>, <<"b">>, <<"c">>}

\* A secret that was not written by the synchronizer.
Unmanaged ==
    [data |-> ("tls" :> <<99>>), annotations |-> ("owner" :> <<"x">>)]

\* A secret an earlier run wrote from a Vault path, with a field and an
\* annotation that were set since.
ManagedStale ==
    [data |-> ("path" :> <<120>>) @@ ("old" :> <<97>>),
     annotations |-> (vaultAnnotation :> <<"x", "/", "c">>) @@ ("owner" :> <<"y">>)]

InitObjects == {Unmanaged, ManagedStale}

InitStores == UNION {[D -> InitObjects] : D \in SUBSET StoreNames}

\* Values of VAULT_SECRETS, as entry lists: unset, "," (empty tokens only),
\* one entry, two entries, two entries with the same name, a named entry
\* and an empty token, three entries.
MainEntryLists ==
    { <<>>,
      <<Bare(<<>>), Bare(<<>>)>>,
      <<Bare(<<"x", "/", "a">>)>>,
      <<Bare(<<"x", "/", "a">>), Bare(<<"y", "/", "b">>)>>,
      <<Entry(<<"x", "/", "a">>, <<"b">>), Bare(<<"y", "/", "b">>)>>,
      <<Entry(<<"x", "/", "c">>, <<"a">>), Bare(<<>>), Bare(<<"b">>)>>,
      <<Bare(<<"x", "/", "a">>), Bare(<<"y", "/", "b">>), Bare(<<"c">>)>> }

NoOutcome == [exitCode |-> -1, applied |-> FALSE, cleaned |-> FALSE]

\* The state main starts in, for entry lists ts and stores sts.
InitWith(ts, sts) ==
    /\ tokens \in ts
    /\ env = JoinEntries(tokens)
    /\ store \in sts
    /\ start = store
    /\ Secrets = EmptyMap
    /\ pc = "newFromEnvironment"
    /\ todo = {}
    /\ annotations = EmptyMap
    /\ secretList = {}
    /\ calls = <<>>
    /\ log = <<>>
    /\ exitCode = -1
    /\ run = 1
    /\ prev = NoOutcome

Init == InitWith(MainEntryLists, InitStores)

\* One run of main.
Next ==
    \/ NewFromEnvironment
    \/ LoadToken
    \/ CheckSecret
    \/ CheckSecretsDone
    \/ SyncEntry
    \/ ListSecrets
    \/ CleanupItem
    \/ SyncReturn

Spec == Init /\ [][Next]_vars

\* Names of the secrets the namespace may hold before a run that is
\* followed to its end.
LiveStoreNames == {<<"a">>, <<"c">>}

LiveStores == UNION {[D -> InitObjects] : D \in SUBSET LiveStoreNames}

\* Values of VAULT_SECRETS of the runs followed to their end: unset, one
\* entry, two entries, a named entry with an empty token and a second entry.
LiveEntryLists ==
    { <<>>,
      <<Bare(<<"x", "/", "a">>)>>,
      <<Bare(<<"x", "/", "a">>), Bare(<<"y", "/", "b">>)>>,
      <<Entry(<<"x", "/", "c">>, <<"a">>), Bare(<<>>), Bare(<<"b">>)>> }

InitLive == InitWith(LiveEntryLists, LiveStores)

\* One run of main, which goes on until it exits: the process is
\* sequential and every call it makes returns.
SpecLive == InitLive /\ [][Next]_vars /\ WF_vars(Next)

\* The process is run MaxRuns times, with the same VAULT_SECRETS.
NextRerun == Next \/ Restart

SpecRerun == Init /\ [][NextRerun]_vars

\* Entry lists for the resolver: up to MaxTokens entries, each the empty
\* token, a sourceID, or sourceID:localName.
ResolverSources == {<<"x", "/", "a">>, <<"x", "/", "b">>, <<"b", "/">>}

ResolverNames == {<<"a">>, <<>>}

ResolverEntries ==
    {Bare(<<>>)} \cup {Bare(src) : src \in ResolverSources}
                 \cup {Entry(src, n) : src \in ResolverSources, n \in ResolverNames}

ResolverEntryLists ==
    UNION {[1..n -> ResolverEntries] : n \in 0..MaxTokens}

InitResolver == InitWith(ResolverEntryLists, {EmptyMap})

\* newFromEnvironment alone, on every entry list.
NextResolver == NewFromEnvironment

SpecResolver == InitResolver /\ [][NextResolver]_vars

----------------------------------------------------------------------------
(* What the properties below speak of. *)

\* Indexes of the calls of one operation, and of those that succeeded.
CallsOf(op) == {i \in 1..Len(calls) : calls[i].op = op}
OkCallsOf(op) == {i \in CallsOf(op) : calls[i].res = "ok"}

\* The token was read: the run is on the path of synchronize.
TokenLoaded == OkCallsOf("ReadFile") # {}

\* The token could not be read: the run is on the path of checkSecrets.
TokenMissing == CallsOf("ReadFile") # {} /\ ~TokenLoaded

Exited == pc = "exited"

\* The run went through synchronize and ended with exit status 0.
SyncSucceeded == Exited /\ exitCode = 0 /\ TokenLoaded

\* Names of the secrets of store st that carry the annotation.
ManagedNames(st) == {n \in DOMAIN st : IsManaged(st[n].annotations)}

\* The secret synchronize writes for name k.
Synchronized(k) ==
    [data |-> ConvertData(VaultSecret(Secrets[k])),
     annotations |-> (vaultAnnotation :> Secrets[k])]

----------------------------------------------------------------------------
(* C1: convergence. *)

\* C1 as claimed: after a run of synchronize that ends with exit status 0,
\* the names of the annotated secrets are exactly the keys of c.Secrets.
C1_ConvergenceAsClaimed ==
    SyncSucceeded => ManagedNames(store) = DOMAIN Secrets

\* C1, amended: after a run of synchronize that ends with exit status 0,
\* every key of c.Secrets names an annotated secret, and the names of the
\* annotated secrets are exactly the keys of c.Secrets when the list and
\* every delete of the cleanup succeeded.
C1_Convergence ==
    SyncSucceeded =>
        /\ DOMAIN Secrets \subseteq ManagedNames(store)
        /\ Outcome.cleaned => ManagedNames(store) = DOMAIN Secrets

\* A run that created a secret, updated one and deleted an obsolete one,
\* and ended with exit status 0 after a cleanup without failure.
C1_Witness ==
    /\ SyncSucceeded
    /\ Outcome.cleaned
    /\ OkCallsOf("Create") # {}
    /\ OkCallsOf("Update") # {}
    /\ OkCallsOf("Delete") # {}

----------------------------------------------------------------------------
(* C2: only annotated secrets are deleted. *)

\* C2: every delete synchronize issues is for a secret that carried the
\* annotation when the run started and is no key of c.Secrets, and a secret
\* without the annotation whose name is no key of c.Secrets is in the store,
\* as it was, at every point of the run and when it ends.
C2_DeleteOnlyManaged ==
    /\ \A i \in CallsOf("Delete") :
         /\ calls[i].arg \in ManagedNames(start)
         /\ calls[i].arg \notin DOMAIN Secrets
    /\ \A n \in DOMAIN start \ ManagedNames(start) :
         n \notin DOMAIN Secrets => n \in DOMAIN store /\ store[n] = start[n]

\* A run whose cleanup deleted a secret and that ended while a secret
\* without the annotation, no key of c.Secrets, was in the namespace.
C2_Witness ==
    /\ SyncSucceeded
    /\ OkCallsOf("Delete") # {}
    /\ \E n \in DOMAIN start \ ManagedNames(start) :
         n \notin DOMAIN Secrets /\ Secrets # EmptyMap

----------------------------------------------------------------------------
(* C3: idempotence. *)

\* The previous run went through synchronize and ended with exit status 0.
PrevSucceeded == run > 1 /\ prev.exitCode = 0 /\ prev.applied

\* C3 as claimed: when the process is run again after a run of synchronize
\* that succeeded, and succeeds again, the store is the one the first run
\* left and the second run issued no create and no delete.
C3_IdempotenceAsClaimed ==
    (PrevSucceeded /\ SyncSucceeded) =>
        /\ store = start
        /\ CallsOf("Create") = {}
        /\ CallsOf("Delete") = {}

\* C3, amended: a run that follows a run of synchronize that ended with
\* exit status 0 issues no create; when the list and every delete of that
\* first run succeeded, it issues no delete either and the store stays, at
\* every point of the run and when it ends, the one the first run left.
C3_Idempotence ==
    PrevSucceeded =>
        /\ CallsOf("Create") = {}
        /\ prev.cleaned => CallsOf("Delete") = {} /\ store = start

\* A second run that updated two secrets and ended with exit status 0,
\* after a first run whose cleanup succeeded.
C3_Witness ==
    /\ PrevSucceeded
    /\ prev.cleaned
    /\ SyncSucceeded
    /\ Cardinality(OkCallsOf("Update")) >= 2
    /\ OkCallsOf("List") # {}

----------------------------------------------------------------------------
(* C4: a failed read from Vault aborts the run. *)

\* Indexes of the creates and updates that succeeded.
OkWrites == OkCallsOf("Create") \cup OkCallsOf("Update")

\* C4: a read from Vault that fails (an error, or no secret at the path) is
\* the last call of the run, which has ended with a non-zero exit status:
\* there was no list and no delete, the secrets created or updated before
\* are in the store as written, and every other secret is as it was.
C4_FetchFailureAborts ==
    \A i \in CallsOf("Read") :
        calls[i].res \in {"error", "notfound"} =>
            /\ i = Len(calls)
            /\ Exited
            /\ exitCode \in {1, 2}
            /\ CallsOf("List") = {}
            /\ CallsOf("Delete") = {}
            /\ \A j \in OkWrites :
                 /\ calls[j].arg \in DOMAIN store
                 /\ store[calls[j].arg] = calls[j].body
            /\ \A n \in DOMAIN start \ {calls[j].arg : j \in OkWrites} :
                 n \in DOMAIN store /\ store[n] = start[n]

\* Three entries: the first was created, the read of the second failed,
\* the third was never read.
C4_Witness ==
    /\ Exited
    /\ Cardinality(DOMAIN Secrets) = 3
    /\ Len(calls) = 5
    /\ calls[4].op = "Create" /\ calls[4].res = "ok"
    /\ calls[5].op = "Read" /\ calls[5].res = "error"
    /\ Cardinality(CallsOf("Read")) = 2

----------------------------------------------------------------------------
(* C5: the run without a token. *)

\* The last message logged.
LastMsg == log[Len(log)]

\* C5 as claimed: when the token cannot be read, Vault is never read, and
\* the run ends with exit status 0 if every key of c.Secrets names a secret
\* of the namespace, with a non-zero status and an error naming a key that
\* names no secret if there is such a key.
C5_DegradedAsClaimed ==
    TokenMissing =>
        /\ CallsOf("Read") = {}
        /\ Exited =>
             IF DOMAIN Secrets \subseteq DOMAIN store
             THEN exitCode = 0
             ELSE /\ exitCode # 0
                  /\ LastMsg.msg = "secret does not exist"
                  /\ LastMsg.arg \in DOMAIN Secrets \ DOMAIN store

\* C5, amended: when the token cannot be read, the run only calls Get, on
\* keys of c.Secrets; it ends with exit status 0 exactly when Get returned
\* the secret for every key, and otherwise with status 1 and the error
\* "secret k does not exist" for the first key k whose Get returned an error
\* (not found or any other).  It never ends with status 0 when a key names
\* no secret.
C5_Degraded ==
    TokenMissing =>
        /\ \A i \in 2..Len(calls) :
             calls[i].op = "Get" /\ calls[i].arg \in DOMAIN Secrets
        /\ Exited =>
             /\ exitCode \in {0, 1}
             /\ exitCode = 0 <=>
                  \A k \in DOMAIN Secrets :
                     \E i \in CallsOf("Get") :
                        calls[i].arg = k /\ calls[i].res = "found"
             /\ exitCode = 1 =>
                  /\ calls[Len(calls)].op = "Get"
                  /\ calls[Len(calls)].res # "found"
                  /\ LastMsg = Msg("secret does not exist", calls[Len(calls)].arg)
                  /\ \A i \in 2..(Len(calls) - 1) : calls[i].res = "found"
             /\ ~(DOMAIN Secrets \subseteq DOMAIN store) => exitCode = 1

\* A run without token that found one secret, then ended with status 1 on
\* a key that names no secret.
C5_Witness ==
    /\ TokenMissing
    /\ Exited
    /\ exitCode = 1
    /\ Len(calls) >= 3
    /\ calls[Len(calls)].res = "notfound"
    /\ calls[Len(calls)].arg \notin DOMAIN store

----------------------------------------------------------------------------
(* C6: a failed delete does not stop the cleanup. *)

\* Names of the secrets the cleanup of this run has to delete.
ObsoleteNames == ManagedNames(start) \ DOMAIN Secrets

\* C6: once the list succeeded, a delete has been issued, or will be in a
\* later iteration, once for every annotated secret whose name is no key of
\* c.Secrets, whatever the deletes before returned; and the run ends with
\* exit status 0, every one of them issued.
C6_DeleteFailureNotFatal ==
    OkCallsOf("List") # {} =>
        /\ \A i, j \in CallsOf("Delete") : calls[i].arg = calls[j].arg => i = j
        /\ {calls[i].arg : i \in CallsOf("Delete")}
             \cup {s.name : s \in {t \in secretList : IsObsolete(t, Secrets)}}
             = ObsoleteNames
        /\ Exited =>
             /\ exitCode = 0
             /\ {calls[i].arg : i \in CallsOf("Delete")} = ObsoleteNames

\* A run that ended with exit status 0 after a delete failed and a delete
\* of another secret was issued after it.
C6_Witness ==
    /\ SyncSucceeded
    /\ \E i, j \in CallsOf("Delete") :
         i < j /\ calls[i].res = "error" /\ calls[j].arg # calls[i].arg

----------------------------------------------------------------------------
(* C7: a failed list skips the cleanup. *)

\* The store as the loop over c.Secrets leaves it: a synchronized secret
\* under every key, every other secret as it was when the run started.
StoreAfterApply ==
    [n \in DOMAIN start \cup DOMAIN Secrets |->
        IF n \in DOMAIN Secrets THEN Synchronized(n) ELSE start[n]]

\* C7: a list that fails is the last call of the run, made once every key
\* of c.Secrets was created or updated: no delete is issued, the store is
\* left as the loop over c.Secrets produced it, and the run has ended with
\* exit status 0.
C7_ListFailureSkipsCleanup ==
    \A i \in CallsOf("List") :
        calls[i].res = "error" =>
            /\ i = Len(calls)
            /\ {calls[j].arg : j \in OkWrites} = DOMAIN Secrets
            /\ CallsOf("Delete") = {}
            /\ store = StoreAfterApply
            /\ Exited
            /\ exitCode = 0

\* A run whose list failed while an obsolete annotated secret was in the
\* namespace.
C7_Witness ==
    /\ Exited
    /\ \E i \in CallsOf("List") : calls[i].res = "error"
    /\ ObsoleteNames # {}
    /\ ObsoleteNames \subseteq DOMAIN store

----------------------------------------------------------------------------
(* C8: the annotation of a written secret. *)

\* Indexes of the creates and updates, failed ones included.
Writes == CallsOf("Create") \cup CallsOf("Update")

\* C8: every secret sent by a create or an update carries the annotation
\* with the Vault path of its own key as value, and every secret a create or
\* an update wrote is in the store with that value at every later point of
\* the run, whatever the other keys and the order of the iterations.
C8_OwnershipMarking ==
    /\ \A i \in Writes :
         /\ IsManaged(calls[i].body.annotations)
         /\ calls[i].body.annotations[vaultAnnotation] = Secrets[calls[i].arg]
    /\ \A i \in OkWrites :
         /\ calls[i].arg \in DOMAIN store
         /\ IsManaged(store[calls[i].arg].annotations)
         /\ store[calls[i].arg].annotations[vaultAnnotation] = Secrets[calls[i].arg]

\* A run that wrote two secrets from two different Vault paths and ended
\* with exit status 0.
C8_Witness ==
    /\ SyncSucceeded
    /\ \E i, j \in OkWrites :
         i < j /\ Secrets[calls[i].arg] # Secrets[calls[j].arg]

----------------------------------------------------------------------------
(* C9: no entry. *)

\* VAULT_SECRETS is empty or holds only separators: every token is empty.
OnlyEmptyTokens == \A i \in 1..Len(env) : env[i] = ","

\* C9: when every token of VAULT_SECRETS is empty, newFromEnvironment
\* fails and the run ends with exit status 1 on "failed to get config",
\* without any call to the token file, to Vault or to Kubernetes and with
\* the store as it was.
C9_EmptyConfigFails ==
    (OnlyEmptyTokens /\ pc # "newFromEnvironment") =>
        /\ Exited
        /\ exitCode = 1
        /\ calls = <<>>
        /\ store = start
        /\ Len(log) = 1
        /\ log[1].msg = "failed to get config"
        /\ log[1].arg \in {"no secrets to synchronize", "missing VAULT_TOKEN_PATH"}

\* VAULT_SECRETS is "," and the run ended on "no secrets to synchronize".
C9_Witness ==
    /\ OnlyEmptyTokens
    /\ Len(env) >= 1
    /\ Exited
    /\ log[1].arg = "no secrets to synchronize"

----------------------------------------------------------------------------
(* C10: the mapping the resolver builds. *)

\* The last path segment of a sourceID: its last run of characters that are
\* no slash.
LastSegment(src) ==
    LET last == CHOOSE e \in 1..Len(src) :
                    /\ src[e] # "/"
                    /\ \A i \in (e + 1)..Len(src) : src[i] = "/"
        first == CHOOSE b \in 1..last :
                    /\ \A i \in b..last : src[i] # "/"
                    /\ b > 1 => src[b - 1] = "/"
    IN  [i \in 1..(last - first + 1) |-> src[first + i - 1]]

\* The local name of an entry.
EntryName(t) == IF t.named THEN t.localName ELSE LastSegment(t.sourceID)

\* Indexes of the entries that are not the empty token.
EntryIndexes == {i \in 1..Len(tokens) : tokens[i] # Bare(<<>>)}

\* Index of the last entry with local name n.
LastWithName(n) ==
    CHOOSE i \in EntryIndexes :
        /\ EntryName(tokens[i]) = n
        /\ \A j \in EntryIndexes : EntryName(tokens[j]) = n => j <= i

\* C10: for an entry list with at least one entry that is not the empty
\* token, newFromEnvironment does not fail for want of secrets, and the
\* mapping it returns has exactly the local names of the entries as keys
\* (the given name, or else the last path segment of the sourceID), each
\* with the sourceID of the last entry of that name as value.
C10_ResolverMapping ==
    (EntryIndexes # {} /\ pc # "newFromEnvironment") =>
        /\ Exited => log[1].arg # "no secrets to synchronize"
        /\ pc = "loadToken" =>
             /\ DOMAIN Secrets = {EntryName(tokens[i]) : i \in EntryIndexes}
             /\ \A n \in DOMAIN Secrets :
                  Secrets[n] = tokens[LastWithName(n)].sourceID

\* Three entries, two of them with the same local name, one given and one
\* derived from the sourceID, and with different sourceIDs.
C10_Witness ==
    /\ pc = "loadToken"
    /\ Cardinality(DOMAIN Secrets) = 2
    /\ \E i, j \in EntryIndexes :
         /\ i < j
         /\ tokens[i].named /\ ~tokens[j].named
         /\ EntryName(tokens[i]) = EntryName(tokens[j])
         /\ tokens[i].sourceID # tokens[j].sourceID

----------------------------------------------------------------------------
(* C11: an error of Get in synchronize. *)

\* Indexes of the calls of Get that returned an error other than not found.
GetErrors == {i \in CallsOf("Get") : calls[i].res = "error"}

\* C11: a run of synchronize in which Get returned an error other than not
\* found does not end with exit status 0.
C11_GetErrorIsFatal ==
    (TokenLoaded /\ GetErrors # {}) => ~(Exited /\ exitCode = 0)

----------------------------------------------------------------------------
(* C12: a failed create or update aborts the run. *)

\* C12: a create or an update that fails is the last call of the run, which
\* has ended with exit status 1: no other entry is read or written after
\* it, and there is no list and no delete.
C12_WriteFailureAborts ==
    \A i \in Writes :
        calls[i].res = "error" =>
            /\ i = Len(calls)
            /\ Exited
            /\ exitCode = 1
            /\ LastMsg.msg = "failed to synchronize secrets"
            /\ CallsOf("List") = {}
            /\ CallsOf("Delete") = {}

\* Three entries: the first was written, the create of the second failed,
\* the third was never read.
C12_Witness ==
    /\ Exited
    /\ Cardinality(DOMAIN Secrets) = 3
    /\ Len(calls) = 7
    /\ calls[4].res = "ok"
    /\ calls[7].op = "Create" /\ calls[7].res = "error"

----------------------------------------------------------------------------
(* C13: an update replaces the secret. *)

\* The fields Vault holds at a path.
PayloadFields(v) == DOMAIN VaultSecret(v).Data["data"]

\* C13: a secret that was in the namespace when the run started and that an
\* update of this run wrote has, from then on, exactly the fields of the
\* Vault secret of its key, with their values as bytes, and exactly one
\* annotation, the marker with the Vault path: no field and no annotation it
\* had before is left.
C13_UpdateReplaces ==
    \A i \in OkCallsOf("Update") :
        LET k == calls[i].arg
        IN  /\ k \in DOMAIN start
            /\ k \in DOMAIN store
            /\ DOMAIN store[k].data = PayloadFields(Secrets[k])
            /\ \A f \in PayloadFields(Secrets[k]) :
                 store[k].data[f] = Bytes(VaultSecret(Secrets[k]).Data["data"][f].val)
            /\ DOMAIN store[k].annotations = {vaultAnnotation}
            /\ store[k].annotations[vaultAnnotation] = Secrets[k]
            /\ DOMAIN start[k].data \cap DOMAIN store[k].data \subseteq PayloadFields(Secrets[k])

\* A run that updated a secret without the marker and a secret with it,
\* both with fields and an annotation the new secret does not have.
C13_Witness ==
    /\ SyncSucceeded
    /\ \E i, j \in OkCallsOf("Update") :
         /\ ~IsManaged(start[calls[i].arg].annotations)
         /\ IsManaged(start[calls[j].arg].annotations)
         /\ "owner" \in DOMAIN start[calls[i].arg].annotations
         /\ "old" \in DOMAIN start[calls[j].arg].data

----------------------------------------------------------------------------
(* C14: the cleanup comes after every entry was applied. *)

\* Indexes, before call i, of the successful creates and updates of key k
\* that follow a read of the Vault secret of k and a Get of k.
AppliedBefore(k, i) ==
    {j \in OkWrites : /\ j < i
                      /\ calls[j].arg = k
                      /\ j > 2
                      /\ calls[j - 2] = Call("Read", Secrets[k], "secret")
                      /\ calls[j - 1].op = "Get" /\ calls[j - 1].arg = k}

\* C14: when the list or a delete is called, every key of c.Secrets has
\* been read from Vault and then created or updated with success, once; a
\* run of synchronize that ended with exit status 0 has issued exactly one
\* create or update for every key, and every key names a secret of the
\* store.
C14_CleanupAfterApply ==
    /\ \A i \in CallsOf("List") \cup CallsOf("Delete") :
         \A k \in DOMAIN Secrets : Cardinality(AppliedBefore(k, i)) = 1
    /\ SyncSucceeded =>
         \A k \in DOMAIN Secrets :
            /\ Cardinality({j \in Writes : calls[j].arg = k}) = 1
            /\ k \in DOMAIN store

\* A run with three entries, created or updated, that listed the namespace
\* and ended with exit status 0.
C14_Witness ==
    /\ SyncSucceeded
    /\ Cardinality(DOMAIN Secrets) = 3
    /\ OkCallsOf("List") # {}
    /\ OkCallsOf("Create") # {}
    /\ OkCallsOf("Update") # {}

----------------------------------------------------------------------------
(* C15: no retry, and the run ends. *)

\* Number of calls of an operation about one name or path.
CountOf(op, arg) == Cardinality({i \in CallsOf(op) : calls[i].arg = arg})

\* No operation is called again: at most one read of the token file, one
\* read from Vault per entry of a path, one Get and one create or update per
\* key, one list, and one delete per secret that was in the namespace.
NoRetry ==
    /\ Cardinality(CallsOf("ReadFile")) <= 1
    /\ Cardinality(CallsOf("List")) <= 1
    /\ \A k \in DOMAIN Secrets :
         /\ CountOf("Read", Secrets[k])
              <= Cardinality({n \in DOMAIN Secrets : Secrets[n] = Secrets[k]})
         /\ CountOf("Get", k) <= 1
         /\ CountOf("Create", k) + CountOf("Update", k) <= 1
    /\ \A i \in CallsOf("Read") : \E k \in DOMAIN Secrets : calls[i].arg = Secrets[k]
    /\ \A i \in CallsOf("Get") \cup Writes : calls[i].arg \in DOMAIN Secrets
    /\ \A i \in CallsOf("Delete") :
         /\ calls[i].arg \in DOMAIN start \cup DOMAIN Secrets
         /\ CountOf("Delete", calls[i].arg) <= 1

\* C15: whatever the calls return, no operation is called again, and the
\* run ends: it reaches an exit, with status 0 or not.
C15_NoRetryTerminates == []NoRetry /\ <>Exited

\* A run that ended after it applied two entries, listed the namespace
\* and called delete.
C15_Witness ==
    /\ Exited
    /\ Cardinality(OkWrites) = 2
    /\ CallsOf("Delete") # {}
    /\ OkCallsOf("List") # {}

----------------------------------------------------------------------------
(* C16: the confirmation message. *)

\* C16: a run of synchronize that ended with exit status 0 has logged
\* "secrets successfully synchronized".
C16_SuccessIsConfirmed ==
    SyncSucceeded =>
        \E i \in 1..Len(log) : log[i].msg = "secrets successfully synchronized"

----------------------------------------------------------------------------
(* C17: no key of c.Secrets is deleted. *)

\* C17: no delete is called for a key of c.Secrets, and a secret that a
\* create or an update of the run wrote is in the store, as written, at
\* every later point of the run, the cleanup included.
C17_DesiredNeverDeleted ==
    /\ \A i \in CallsOf("Delete") :
         /\ calls[i].arg \notin DOMAIN Secrets
         /\ \A j \in Writes : calls[j].arg # calls[i].arg
    /\ \A j \in OkWrites :
         /\ calls[j].arg \in DOMAIN store
         /\ store[calls[j].arg] = calls[j].body

\* A run whose cleanup deleted a secret and ended, the list having held
\* the annotated secrets the run had just written.
C17_Witness ==
    /\ SyncSucceeded
    /\ OkCallsOf("Delete") # {}
    /\ Cardinality(OkWrites) >= 2
    /\ secretList = {}

----------------------------------------------------------------------------
(* C18: the run without token only reads the namespace. *)

\* The messages of the path of checkSecrets.
CheckMessages == {"secret does not exist", "cannot synchronize secrets"}

\* C18: when the token cannot be read, the run calls nothing but Get, the
\* store stays as it was when the run started, and synchronize is never
\* entered; when the token is read, checkSecrets is never entered: every
\* Get follows the read from Vault of its iteration and no message of
\* checkSecrets is logged.
C18_DegradedReadOnly ==
    /\ TokenMissing =>
         /\ \A i \in 2..Len(calls) : calls[i].op = "Get"
         /\ store = start
         /\ pc \in {"checkSecrets", "exited"}
         /\ annotations = EmptyMap
         /\ secretList = {}
         /\ \A i \in 1..Len(log) : log[i].msg \in CheckMessages
    /\ TokenLoaded =>
         /\ pc \in {"synchronize", "cleanup", "exited"}
         /\ \A i \in CallsOf("Get") : i > 1 /\ calls[i - 1].op = "Read"
         /\ \A i \in 1..Len(log) : log[i].msg \notin CheckMessages

\* A run without token that found two secrets in a namespace and ended
\* with exit status 0.
C18_Witness ==
    /\ TokenMissing
    /\ Exited
    /\ exitCode = 0
    /\ Cardinality(CallsOf("Get")) >= 2
    /\ ManagedNames(store) # {}

----------------------------------------------------------------------------
(* C19: what a run of synchronize leaves alone. *)

\* Names of the secrets of the namespace that are no key of c.Secrets.
OtherNames == DOMAIN start \ DOMAIN Secrets

\* C19: at every point of a run, a secret without the marker whose name is
\* no key of c.Secrets is in the store as it was when the run started; a
\* secret with the marker whose name is no key is as it was or is no longer
\* in the store; and every Get, create and update is for a key of c.Secrets,
\* so that the store holds no name that is neither a key nor a name it held.
C19_Frame ==
    /\ \A n \in OtherNames \ ManagedNames(start) :
         n \in DOMAIN store /\ store[n] = start[n]
    /\ \A n \in OtherNames \cap ManagedNames(start) :
         n \in DOMAIN store => store[n] = start[n]
    /\ \A i \in Writes : calls[i].arg \in DOMAIN Secrets
    /\ DOMAIN store \subseteq DOMAIN start \cup DOMAIN Secrets
    /\ \A n \in DOMAIN store \ DOMAIN start :
         \E i \in OkCallsOf("Create") : calls[i].arg = n

\* A run that created a secret, deleted an obsolete secret with the marker
\* and left alone a secret without it.
C19_Witness ==
    /\ SyncSucceeded
    /\ OkCallsOf("Create") # {}
    /\ \E i \in OkCallsOf("Delete") : calls[i].arg \in OtherNames \cap ManagedNames(start)
    /\ \E n \in OtherNames \ ManagedNames(start) : n \in DOMAIN store

====
